---------------------------- MODULE Spec2Model ----------------------------
(***************************************************************************)
(* A model of simple-mod-sync's two sync-descriptor producers:             *)
(*   - translators/modrinth_versions.py, the remote producer, which turns  *)
(*     a list of Modrinth version ids into content records through two     *)
(*     batch calls to the registry;                                        *)
(*   - translators/static.py, the local producer, which walks directories  *)
(*     of .jar/.zip archives and reads each archive's manifest.            *)
(*                                                                         *)
(* Representation of Python values:                                        *)
(*   - a dict whose order is never observed is a TLA+ function; id_map,    *)
(*     whose values() order builds the phase-2 request, is a sequence of   *)
(*     <<key, value>> pairs in insertion order;                            *)
(*   - a key missing from a JSON/TOML object is the value Absent;          *)
(*   - a path or URL is a sequence of tokens, each token either the one    *)
(*     character "/" or a non-empty chunk that holds no "/".               *)
(***************************************************************************)
EXTENDS Integers, Sequences, FiniteSets, TLC

VARIABLES
    \* ---- remote producer (modrinth_versions.py)
    input_lines,      \* the lines of versions.txt
    registry,         \* what the registry knows: versions and projects
    rpc,              \* position of main() in the remote producer
    versions,         \* Parser.versions
    id_map,           \* Parser.id_map (class attribute)
    versions_status,  \* status code of the versions call (0: not made yet)
    projects_status,  \* status code of the projects call (0: not made yet)
    projects_req,     \* the project ids asked for in the projects call
    projects_body,    \* the projects the registry returned
    files_info,       \* parse's local files_info
    projects_info,    \* parse's local projects_info
    sync_data,        \* the records of the SyncData parse returned
    output,           \* sync.json: whether it was written, and its records
    failed,           \* "Failed to generate sync file" was printed
    parsers,          \* the number of Parser instances created in the process
    \* ---- Parser.__get_project_type on its own
    loaders_in,       \* the loader tags passed in
    project_type_out, \* the ContentType returned ("none": not called yet)
    \* ---- Parser.__get_manifest on its own
    members_in,       \* the member paths of the archive
    accept_mf_in,     \* Parser.accept_mf
    manifest_out,     \* what __get_manifest returned or raised
    \* ---- Parser.__get_uri on its own
    filename_in,      \* the filename passed in
    correction_in,    \* the correction passed in
    uri_out,          \* the URL returned
    \* ---- local producer (static.py)
    accept_mfs,       \* the configuration's accept_mfs
    lpc,              \* position of main() in the local producer
    wd,               \* index of the working directory being walked
    dir_files,        \* os.listdir's result for that directory
    fi,               \* index in dir_files of the file being handled
    listed,           \* the listings of the directories walked so far
    static_sync_data, \* sync_data.contents
    static_output,    \* sync.json: whether it was written, and its records
    printed,          \* the errors printed so far
    handles           \* per parse() call so far, the handles as it left them

remote_vars == <<input_lines, registry, rpc, versions, id_map, versions_status,
                 projects_status, projects_req, projects_body, files_info,
                 projects_info, sync_data, output, failed, parsers>>

type_vars == <<loaders_in, project_type_out>>

manifest_vars == <<members_in, accept_mf_in, manifest_out>>

uri_vars == <<filename_in, correction_in, uri_out>>

static_vars == <<accept_mfs, lpc, wd, dir_files, fi, listed, static_sync_data,
                 static_output, printed, handles>>

vars == <<remote_vars, type_vars, manifest_vars, uri_vars, static_vars>>

(***************************************************************************)
(* Bounds of the model.                                                    *)
(***************************************************************************)
MaxVersions == 2

MaxLoaders == 2

MaxCorrection == 3

MaxPath == 2

MaxFiles == 2

\* The most Parser instances one process creates.
MaxParsers == 2

(***************************************************************************)
(* Python values.                                                          *)
(***************************************************************************)
Absent == "<absent>"

\* The output file before anything is written to it.
NotWritten == [written |-> FALSE, sync |-> <<>>]

EmptyDict == <<>>

DictKeys(d) == {d[i][1] : i \in DOMAIN d}

DictGet(d, k) == d[CHOOSE i \in DOMAIN d : d[i][1] = k][2]

DictSet(d, k, v) ==
    IF k \in DictKeys(d)
    THEN [i \in DOMAIN d |-> IF d[i][1] = k THEN <<k, v>> ELSE d[i]]
    ELSE Append(d, <<k, v>>)

DictValues(d) == [i \in DOMAIN d |-> d[i][2]]

FunSet(f, k, v) == [x \in (DOMAIN f) \cup {k} |-> IF x = k THEN v ELSE f[x]]

SeqsUpTo(S, n) == UNION {[1..k -> S] : k \in 0..n}

RECURSIVE SelectTruthy(_)
SelectTruthy(s) ==
    IF s = <<>> THEN <<>>
    ELSE IF Head(s) # "" THEN <<Head(s)>> \o SelectTruthy(Tail(s))
    ELSE SelectTruthy(Tail(s))

(***************************************************************************)
(* The registry (an external collaborator): the version and project        *)
(* objects it holds, and the bodies it answers the two batch calls with.   *)
(***************************************************************************)
VersionIds == {"V1", "V2"}

ProjectIds == {"P1", "P2"}

StatusCodes == {200, 500}

\* The file list and loader tags of a version, as the registry declares them.
VersionShapes ==
    { [files |-> <<[primary |-> FALSE, url |-> "u0"],
                   [primary |-> TRUE, url |-> "u1"],
                   [primary |-> TRUE, url |-> "u2"]>>,
       loaders |-> <<"fabric">>],
      [files |-> <<[primary |-> FALSE, url |-> "u3"]>>,
       loaders |-> <<"bukkit", "iris", "minecraft">>] }

VersionObjects(id) ==
    { [id |-> id, project_id |-> p, files |-> sh.files, loaders |-> sh.loaders] :
        p \in ProjectIds, sh \in VersionShapes }

ProjectObjects(id) ==
    { [id |-> id, title |-> t, slug |-> s] :
        t \in {Absent, "Title-" \o id}, s \in {Absent, "slug-" \o id} }

\* A registry knows some of the ids: the domain of each map is what it knows.
KnownVersions ==
    UNION { { f \in [K -> UNION {VersionObjects(i) : i \in K}] :
                \A i \in K : f[i].id = i } : K \in SUBSET VersionIds }

KnownProjects ==
    UNION { { f \in [K -> UNION {ProjectObjects(i) : i \in K}] :
                \A i \in K : f[i].id = i } : K \in SUBSET ProjectIds }

Registries ==
    { [versions |-> vs, projects |-> ps] :
        vs \in KnownVersions, ps \in KnownProjects }

\* The objects the registry holds for the ids asked for, each once, in the
\* order the ids were first asked for.
RECURSIVE BatchBody(_, _, _)
BatchBody(known, ids, done) ==
    IF ids = <<>> THEN <<>>
    ELSE LET id == Head(ids) IN
         IF id \in done \/ id \notin DOMAIN known
         THEN BatchBody(known, Tail(ids), done)
         ELSE <<known[id]>> \o BatchBody(known, Tail(ids), done \cup {id})

(***************************************************************************)
(* modrinth_versions.py: Parser.                                           *)
(***************************************************************************)
\* Parser.__init_id_map: every input version gets the empty project id.
RECURSIVE init_id_map(_, _)
init_id_map(vs, idm) ==
    IF vs = <<>> THEN idm
    ELSE init_id_map(Tail(vs), DictSet(idm, Head(vs), ""))

\* get_project_type with the default returned inside the loop, at the first
\* tag that is not in the mapping.
get_project_type_no_skip(loaders) ==
    IF loaders = <<>> THEN "mod"
    ELSE LET loader == Head(loaders) IN
         IF loader \in {"fabric", "quilt", "forge", "neoforge"} THEN "mod"
         ELSE IF loader \in {"iris", "optifine"} THEN "shader"
         ELSE IF loader = "datapack" THEN "datapack"
         ELSE IF loader = "minecraft" THEN "resourcepack"
         ELSE "mod"

\* Parser.__get_project_type: the first loader tag in the mapping decides.
RECURSIVE get_project_type(_)
get_project_type(loaders) ==
    IF loaders = <<>> THEN "mod"
    ELSE LET loader == Head(loaders) IN
         IF loader \in {"fabric", "quilt", "forge", "neoforge"} THEN "mod"
         ELSE IF loader \in {"iris", "optifine"} THEN "shader"
         ELSE IF loader = "datapack" THEN "datapack"
         ELSE IF loader = "minecraft" THEN "resourcepack"
         ELSE get_project_type(Tail(loaders))

\* The inner loop of __get_versions_files: the URL of the first primary file.
RECURSIVE primary_file_url(_)
primary_file_url(files) ==
    IF files = <<>> THEN ""
    ELSE IF Head(files).primary THEN Head(files).url
    ELSE primary_file_url(Tail(files))

\* The loop of __get_versions_files over the versions call's body.
RECURSIVE versions_loop(_, _, _)
versions_loop(body, files, idm) ==
    IF body = <<>> THEN [files |-> files, id_map |-> idm]
    ELSE LET version    == Head(body)
             version_id == version.id
             project_id == IF version.project_id = Absent THEN ""
                           ELSE version.project_id
         IN  versions_loop(Tail(body),
                 FunSet(files, version_id,
                        [url  |-> primary_file_url(version.files),
                         type |-> get_project_type(version.loaders)]),
                 DictSet(idm, version_id, project_id))

\* Parser.__get_versions_files, given the registry's response.
get_versions_files(status_code, body, idm) ==
    IF status_code = 200 THEN versions_loop(body, EmptyDict, idm)
    ELSE [files |-> EmptyDict, id_map |-> idm]

\* project_name without the fallback to the slug.
project_name_no_slug(project) ==
    IF project.title # Absent THEN project.title ELSE "UNKNOWN"

\* project.get('title', project.get('slug', 'UNKNOWN'))
project_name(project) ==
    IF project.title # Absent THEN project.title
    ELSE IF project.slug # Absent THEN project.slug
    ELSE "UNKNOWN"

\* The loop of __get_projects_info over the projects call's body.
RECURSIVE projects_loop(_, _)
projects_loop(body, info) ==
    IF body = <<>> THEN info
    ELSE LET project == Head(body) IN
         projects_loop(Tail(body), FunSet(info, project.id, project_name(project)))

\* Parser.__get_projects_info, given the registry's response.
get_projects_info(status_code, body) ==
    IF status_code = 200 THEN projects_loop(body, EmptyDict) ELSE EmptyDict

\* The project ids __get_projects_info asks for.
project_ids(idm) == SelectTruthy(DictValues(idm))

\* The join loop of Parser.parse.  projects_info[...] raises KeyError for a
\* project id that is no key of projects_info: parse then returns nothing.
RECURSIVE join(_, _, _, _, _)
join(vs, files, projects, idm, contents) ==
    IF vs = <<>> THEN [raised |-> FALSE, contents |-> contents]
    ELSE LET version == Head(vs) IN
         IF version \in DOMAIN files
         THEN IF DictGet(idm, version) \in DOMAIN projects
              THEN join(Tail(vs), files, projects, idm,
                        Append(contents,
                               [url     |-> files[version].url,
                                name    |-> projects[DictGet(idm, version)],
                                version |-> version,
                                type    |-> files[version].type]))
              ELSE [raised |-> TRUE, contents |-> <<>>]
         ELSE join(Tail(vs), files, projects, idm, contents)

(***************************************************************************)
(* static.py: strings.  A path, a file name or a URL is a sequence of       *)
(* tokens: "/" and "." are tokens of their own, every other token is a     *)
(* non-empty run of characters other than "/" and ".".                     *)
(***************************************************************************)
StartsWith(s, prefix) ==
    Len(s) >= Len(prefix) /\ SubSeq(s, 1, Len(prefix)) = prefix

EndsWith(s, suffix) ==
    Len(s) >= Len(suffix) /\ SubSeq(s, Len(s) - Len(suffix) + 1, Len(s)) = suffix

\* str.rfind(ch): the last index of token ch in s, 0 when there is none
\* (Python's -1).
RFind(s, ch) ==
    IF \E i \in DOMAIN s : s[i] = ch
    THEN CHOOSE i \in DOMAIN s : s[i] = ch /\ \A j \in DOMAIN s : s[j] = ch => j <= i
    ELSE 0

\* s with every token ch taken out.
RECURSIVE Without(_, _)
Without(s, ch) ==
    IF s = <<>> THEN <<>>
    ELSE IF Head(s) = ch THEN Without(Tail(s), ch)
    ELSE <<Head(s)>> \o Without(Tail(s), ch)

Jar == <<".", "jar">>

Zip == <<".", "zip">>

(***************************************************************************)
(* static.py: configuration.                                               *)
(***************************************************************************)
url_base_path ==
    <<"https:", "/", "/", "example", ".", "com", "/", "static", "/",
      "content", "/">>

working_directories ==
    << <<".", "/">>, <<".", "/", "another", "/", "directory", "/">> >>

working_directory_to_url_override(working_directory) ==
    IF working_directory = <<".", "/">> THEN <<>> ELSE <<"/", "backup">>

(***************************************************************************)
(* static.py: Parser.                                                      *)
(***************************************************************************)
FabricModJson == <<"fabric", ".", "mod", ".", "json">>

QuiltModJson == <<"quilt", ".", "mod", ".", "json">>

ModsToml == <<"META-INF", "/", "mods", ".", "toml">>

NeoforgeModsToml == <<"META-INF", "/", "neoforge", ".", "mods", ".", "toml">>

ShadersDir == <<"shaders", "/">>

DataDir == <<"data", "/">>

PackMcmeta == <<"pack", ".", "mcmeta">>

ManifestMf == <<"MANIFEST", ".", "MF">>

MetaInfManifestMf == <<"META-INF", "/", "MANIFEST", ".", "MF">>

paths_to_try ==
    <<FabricModJson, QuiltModJson, ModsToml, NeoforgeModsToml, ShadersDir,
      DataDir, PackMcmeta>>

manifests == <<ManifestMf, MetaInfManifestMf>>

\* first_present with the last present path winning.
RECURSIVE first_present_last_wins(_, _)
first_present_last_wins(paths, member_set) ==
    IF paths = <<>> THEN [found |-> FALSE, path |-> <<>>]
    ELSE IF paths[Len(paths)] \in member_set
         THEN [found |-> TRUE, path |-> paths[Len(paths)]]
    ELSE first_present_last_wins(SubSeq(paths, 1, Len(paths) - 1), member_set)

\* for path in paths: try archive.getinfo(path); return path; except: pass
RECURSIVE first_present(_, _)
first_present(paths, member_set) ==
    IF paths = <<>> THEN [found |-> FALSE, path |-> <<>>]
    ELSE IF Head(paths) \in member_set THEN [found |-> TRUE, path |-> Head(paths)]
    ELSE first_present(Tail(paths), member_set)

\* get_manifest without the accept_mf test before the MANIFEST.MF fallback.
get_manifest_always_mf(member_set, accept) ==
    LET tried == first_present(paths_to_try, member_set)
        mf    == first_present(manifests, member_set)
    IN  IF tried.found THEN [raised |-> FALSE, path |-> tried.path]
        ELSE IF mf.found THEN [raised |-> FALSE, path |-> mf.path]
        ELSE [raised |-> TRUE, path |-> <<>>]

\* Parser.__get_manifest: the path returned, or the exception raised.
get_manifest(member_set, accept) ==
    LET tried == first_present(paths_to_try, member_set) IN
    IF tried.found THEN [raised |-> FALSE, path |-> tried.path]
    ELSE IF ~accept THEN [raised |-> TRUE, path |-> <<>>]
    ELSE LET mf == first_present(manifests, member_set) IN
         IF mf.found THEN [raised |-> FALSE, path |-> mf.path]
         ELSE [raised |-> TRUE, path |-> <<>>]

\* Parser.__get_uri
get_uri(name, corr) ==
    LET last_slash_index == RFind(name, "/")
        after == SubSeq(name, last_slash_index + 1, Len(name))
        relative_path ==
            IF last_slash_index # 0
            THEN IF StartsWith(after, <<"/">>) THEN Tail(after) ELSE after
            ELSE name
        stripped ==
            IF Len(corr) # 0 /\ StartsWith(corr, <<"/">>) THEN Tail(corr) ELSE corr
        normalized ==
            IF Len(corr) # 0 /\ ~EndsWith(stripped, <<"/">>)
            THEN stripped \o <<"/">> ELSE stripped
    IN  url_base_path \o normalized \o relative_path

\* Parser.__get_name_from_path: "".join((path.split("/")[-1]).split(".")[:-1])
get_name_from_path(path) ==
    LET last == SubSeq(path, RFind(path, "/") + 1, Len(path))
        dot  == RFind(last, ".")
    IN  IF dot = 0 THEN <<>> ELSE Without(SubSeq(last, 1, dot - 1), ".")

\* Content(url, name, version, type)
Content(url, name, version, type) ==
    [url |-> url, name |-> name, version |-> version, type |-> type]

\* What a call gives back: the Content returned or the exception raised, and
\* where it leaves the manifest member's stream ("none": never opened).
Returns(content, stream) ==
    [raised |-> FALSE, error |-> "", content |-> content, stream |-> stream]

Raises(error, stream) ==
    [raised |-> TRUE, error |-> error,
     content |-> Content(<<>>, <<>>, <<>>, "none"), stream |-> stream]

\* Parser.__get_rand_version: the decimal rendering of 4 random bytes; the
\* least and the greatest stand for the 2^32 values.
RandVersions == { <<"0">>, <<"4294967295">> }

\* parse_stream with modId read before displayName, and a missing version
\* replaced by a synthesized one.
parse_stream_modid_first(path, doc, uri, name_from_path, rand_version) ==
    IF EndsWith(path, <<".", "toml">>) /\ doc.parses
       /\ ("displayName" \in DOMAIN doc.fields \/ "modId" \in DOMAIN doc.fields)
    THEN [raised |-> FALSE, error |-> "",
          content |-> Content(uri,
                              IF "modId" \in DOMAIN doc.fields
                              THEN doc.fields["modId"]
                              ELSE doc.fields["displayName"],
                              IF "version" \in DOMAIN doc.fields
                              THEN doc.fields["version"] ELSE rand_version,
                              "mod"),
          stream |-> "closed"]
    ELSE [raised |-> TRUE, error |-> "Unknown path",
          content |-> Content(<<>>, <<>>, <<>>, "none"), stream |-> "open"]

\* The structured-text branches of Parser.__parse_manifest, once data_stream
\* is open.  doc is the manifest member's document: whether it parses, and
\* the keys it holds (for TOML, the keys of the first entry of mods).
parse_stream(path, doc, uri, name_from_path, rand_version) ==
    IF EndsWith(path, <<".", "json">>)
    THEN IF ~doc.parses THEN Raises("JSONDecodeError", "open")
         ELSE IF "name" \notin DOMAIN doc.fields THEN Raises("KeyError: name", "open")
         ELSE IF "version" \notin DOMAIN doc.fields
              THEN Raises("KeyError: version", "open")
         ELSE Returns(Content(uri, doc.fields["name"], doc.fields["version"], "mod"),
                      "open")
    ELSE IF EndsWith(path, <<".", "toml">>)
    THEN IF ~doc.parses THEN Raises("TOMLDecodeError", "open")
         ELSE IF "displayName" \notin DOMAIN doc.fields
                 /\ "modId" \notin DOMAIN doc.fields
              THEN Raises("KeyError: modId", "open")
         ELSE IF "version" \notin DOMAIN doc.fields
              THEN Raises("KeyError: version", "open")
         ELSE Returns(Content(uri,
                              IF "displayName" \in DOMAIN doc.fields
                              THEN doc.fields["displayName"]
                              ELSE doc.fields["modId"],
                              doc.fields["version"], "mod"),
                      "closed")
    ELSE IF EndsWith(path, <<".", "mcmeta">>)
    THEN Returns(Content(uri, name_from_path, rand_version, "resourcepack"), "closed")
    ELSE IF EndsWith(path, <<".", "MF">>)
    THEN Returns(Content(uri, name_from_path, rand_version, "mod"), "closed")
    ELSE Raises("Unknown path", "open")

\* Parser.__parse_manifest on an archive opened under the name archive_filename.
parse_manifest(archive, archive_filename, corr, accept, rand_version) ==
    LET m == get_manifest(archive.members, accept) IN
    IF m.raised
    THEN Raises(IF accept THEN "Absolutely no manifest found"
                ELSE "No manifest found", "none")
    ELSE LET path == m.path
             uri  == get_uri(archive_filename, corr)
             name == get_name_from_path(archive_filename)
         IN  IF EndsWith(path, <<"/">>)
             THEN IF path = ShadersDir
                  THEN Returns(Content(uri, name, rand_version, "shader"), "none")
                  ELSE IF path = DataDir
                  THEN Returns(Content(uri, name, rand_version, "datapack"), "none")
                  ELSE Raises("Unknown path", "none")
             ELSE parse_stream(path, archive.doc, uri, name, rand_version)

\* Parser.parse: zipfile.ZipFile raises for a file that is no zip archive.
parse(archive, archive_filename, corr, accept, rand_version) ==
    IF ~archive.zip THEN Raises("BadZipFile", "none")
    ELSE parse_manifest(archive, archive_filename, corr, accept, rand_version)

\* The handles of one parse() call at its exit.  The with statement closes
\* the archive handle on every path out of its block ("none": ZipFile raised
\* and no handle was opened); the member stream is as __parse_manifest left it.
parse_handles(archive, r) ==
    [archive |-> IF archive.zip THEN "closed" ELSE "none", stream |-> r.stream]

\* Parser.__init__ raises for a path that does not exist or that ends in
\* neither .jar nor .zip.
parser_init_raises(archive, file_path) ==
    \/ ~archive.exists
    \/ (~EndsWith(file_path, Jar) /\ ~EndsWith(file_path, Zip))

(***************************************************************************)
(* The file system (an external collaborator): the directory entries a     *)
(* listing can hold.  An entry has a name, may be gone by the time it is   *)
(* opened (a dangling link), may be no zip archive, and otherwise has      *)
(* members and a manifest document.                                        *)
(***************************************************************************)
Entry(file, exists, zip, member_set, parses, fields) ==
    [file |-> file, exists |-> exists, zip |-> zip, members |-> member_set,
     doc |-> [parses |-> parses, fields |-> fields]]

NoFields == <<>>

Entries ==
    { Entry(<<"fabric", ".", "jar">>, TRUE, TRUE,
            {FabricModJson, PackMcmeta, MetaInfManifestMf}, TRUE,
            [name |-> <<"Fabric Mod">>, version |-> <<"1", ".", "0">>]),
      Entry(<<"quilt", ".", "jar">>, TRUE, TRUE, {QuiltModJson}, TRUE,
            [name |-> <<"Quilt Mod">>]),
      Entry(<<"badjson", ".", "jar">>, TRUE, TRUE, {FabricModJson}, FALSE, NoFields),
      Entry(<<"forge", ".", "jar">>, TRUE, TRUE, {ModsToml, MetaInfManifestMf}, TRUE,
            [displayName |-> <<"Forge Mod">>, modId |-> <<"forgemod">>,
             version |-> <<"2", ".", "0">>]),
      Entry(<<"neoforge", ".", "jar">>, TRUE, TRUE, {NeoforgeModsToml}, TRUE,
            [modId |-> <<"neomod">>, version |-> <<"3", ".", "0">>]),
      Entry(<<"noversion", ".", "jar">>, TRUE, TRUE, {ModsToml, PackMcmeta}, TRUE,
            [displayName |-> <<"No Version">>, modId |-> <<"noversion">>]),
      Entry(<<"shader", ".", "zip">>, TRUE, TRUE, {ShadersDir, PackMcmeta}, TRUE,
            NoFields),
      Entry(<<"data", ".", "pack", ".", "zip">>, TRUE, TRUE, {DataDir}, TRUE, NoFields),
      Entry(<<"resources", ".", "zip">>, TRUE, TRUE, {PackMcmeta}, TRUE, NoFields),
      Entry(<<"legacy", ".", "jar">>, TRUE, TRUE, {MetaInfManifestMf}, TRUE, NoFields),
      Entry(<<"plain", ".", "zip">>, TRUE, TRUE, {<<"assets", "/">>}, TRUE, NoFields),
      Entry(<<"notzip", ".", "zip">>, TRUE, FALSE, {}, FALSE, NoFields),
      Entry(<<"dangling", ".", "jar">>, FALSE, FALSE, {}, FALSE, NoFields),
      Entry(<<"notes", ".", "txt">>, TRUE, FALSE, {}, FALSE, NoFields) }

\* The listings of at most n entries: no name twice.
Listings(n) ==
    { l \in SeqsUpTo(Entries, n) :
        \A i, j \in DOMAIN l : l[i].file = l[j].file => i = j }

(***************************************************************************)
(* Each specification below runs one entry point; the state of the others  *)
(* stays as it is before they start.                                       *)
(***************************************************************************)
RemoteIdle ==
    /\ input_lines = <<>>
    /\ registry = [versions |-> <<>>, projects |-> <<>>]
    /\ rpc = "idle"
    /\ versions = <<>>
    /\ id_map = EmptyDict
    /\ versions_status = 0
    /\ projects_status = 0
    /\ projects_req = <<>>
    /\ projects_body = <<>>
    /\ files_info = EmptyDict
    /\ projects_info = EmptyDict
    /\ sync_data = <<>>
    /\ output = NotWritten
    /\ failed = FALSE
    /\ parsers = 0

TypeIdle == loaders_in = <<>> /\ project_type_out = "none"

ManifestIdle ==
    /\ members_in = {}
    /\ accept_mf_in = FALSE
    /\ manifest_out = [called |-> FALSE, raised |-> FALSE, path |-> <<>>]

UriIdle ==
    /\ filename_in = <<>>
    /\ correction_in = <<>>
    /\ uri_out = [called |-> FALSE, url |-> <<>>]

StaticIdle ==
    /\ accept_mfs = FALSE
    /\ lpc = "idle"
    /\ wd = 1
    /\ dir_files = <<>>
    /\ fi = 1
    /\ listed = <<>>
    /\ static_sync_data = <<>>
    /\ static_output = NotWritten
    /\ printed = <<>>
    /\ handles = <<>>

(***************************************************************************)
(* modrinth_versions.py: main().                                           *)
(***************************************************************************)
InitRemote ==
    /\ input_lines \in SeqsUpTo(VersionIds, MaxVersions)
    /\ registry \in Registries
    /\ rpc = "start"
    /\ versions = <<>>
    /\ id_map = EmptyDict
    /\ versions_status = 0
    /\ projects_status = 0
    /\ projects_req = <<>>
    /\ projects_body = <<>>
    /\ files_info = EmptyDict
    /\ projects_info = EmptyDict
    /\ sync_data = <<>>
    /\ output = NotWritten
    /\ failed = FALSE
    /\ parsers = 0
    /\ TypeIdle /\ ManifestIdle /\ UriIdle /\ StaticIdle

\* parser = Parser(input_file): __read_file, then __init_id_map.
ParserInit ==
    /\ rpc = "start"
    /\ versions' = input_lines
    /\ id_map' = init_id_map(input_lines, id_map)
    /\ parsers' = parsers + 1
    /\ rpc' = "versions_call"
    /\ UNCHANGED <<input_lines, registry, versions_status, projects_status,
                   projects_req, projects_body, files_info, projects_info,
                   sync_data, output, failed>>
    /\ UNCHANGED <<type_vars, manifest_vars, uri_vars, static_vars>>

\* files_info = self.__get_versions_files()
GetVersionsFiles ==
    /\ rpc = "versions_call"
    /\ \E status_code \in StatusCodes :
         LET body == BatchBody(registry.versions, versions, {})
             got  == get_versions_files(status_code, body, id_map)
         IN  /\ versions_status' = status_code
             /\ files_info' = got.files
             /\ id_map' = got.id_map
    /\ rpc' = "projects_call"
    /\ UNCHANGED <<input_lines, registry, versions, projects_status,
                   projects_req, projects_body, projects_info, sync_data,
                   output, failed,
                   parsers>>
    /\ UNCHANGED <<type_vars, manifest_vars, uri_vars, static_vars>>

\* projects_info = self.__get_projects_info()
GetProjectsInfo ==
    /\ rpc = "projects_call"
    /\ \E status_code \in StatusCodes :
         LET ids  == project_ids(id_map)
             body == IF status_code = 200
                     THEN BatchBody(registry.projects, ids, {}) ELSE <<>>
         IN  /\ projects_req' = ids
             /\ projects_status' = status_code
             /\ projects_body' = body
             /\ projects_info' = get_projects_info(status_code, body)
    /\ rpc' = "join"
    /\ UNCHANGED <<input_lines, registry, versions, id_map, versions_status,
                   files_info, sync_data, output, failed,
                   parsers>>
    /\ UNCHANGED <<type_vars, manifest_vars, uri_vars, static_vars>>

\* The join loop runs to its end: parse returns SyncData(contents).
JoinReturns ==
    /\ rpc = "join"
    /\ LET r == join(versions, files_info, projects_info, id_map, <<>>) IN
         /\ ~r.raised
         /\ sync_data' = r.contents
    /\ rpc' = "write"
    /\ UNCHANGED <<input_lines, registry, versions, id_map, versions_status,
                   projects_status, projects_req, projects_body, files_info,
                   projects_info, output, failed,
                   parsers>>
    /\ UNCHANGED <<type_vars, manifest_vars, uri_vars, static_vars>>

\* The join loop raises KeyError: main's except prints the failure, and the
\* output file is never opened.
JoinRaises ==
    /\ rpc = "join"
    /\ join(versions, files_info, projects_info, id_map, <<>>).raised
    /\ failed' = TRUE
    /\ rpc' = "done"
    /\ UNCHANGED <<input_lines, registry, versions, id_map, versions_status,
                   projects_status, projects_req, projects_body, files_info,
                   projects_info, sync_data, output,
                   parsers>>
    /\ UNCHANGED <<type_vars, manifest_vars, uri_vars, static_vars>>

\* with open(output_file, "w") as f: f.write(sync_data.to_json())
WriteSyncFile ==
    /\ rpc = "write"
    /\ output' = [written |-> TRUE, sync |-> sync_data]
    /\ rpc' = "done"
    /\ UNCHANGED <<input_lines, registry, versions, id_map, versions_status,
                   projects_status, projects_req, projects_body, files_info,
                   projects_info, sync_data, failed,
                   parsers>>
    /\ UNCHANGED <<type_vars, manifest_vars, uri_vars, static_vars>>

NextRemote ==
    \/ ParserInit
    \/ GetVersionsFiles
    \/ GetProjectsInfo
    \/ JoinReturns
    \/ JoinRaises
    \/ WriteSyncFile

SpecRemote == InitRemote /\ [][NextRemote]_vars

(***************************************************************************)
(* modrinth_versions.py: a process that creates one Parser after another.  *)
(* Parser.id_map is an attribute of the class, bound once to one dict when *)
(* the class body runs; __init_id_map and __get_versions_files assign into *)
(* that dict, so it is the same dict for every instance of the process.    *)
(***************************************************************************)
\* main() is run again on another input file: everything that belongs to the
\* run starts afresh, and Parser.id_map stays as the last run left it.
MainAgain ==
    /\ rpc = "done"
    /\ parsers < MaxParsers
    /\ input_lines' \in SeqsUpTo(VersionIds, MaxVersions)
    /\ rpc' = "start"
    /\ versions' = <<>>
    /\ versions_status' = 0
    /\ projects_status' = 0
    /\ projects_req' = <<>>
    /\ projects_body' = <<>>
    /\ files_info' = EmptyDict
    /\ projects_info' = EmptyDict
    /\ sync_data' = <<>>
    /\ failed' = FALSE
    /\ UNCHANGED <<registry, id_map, output, parsers>>
    /\ UNCHANGED <<type_vars, manifest_vars, uri_vars, static_vars>>

NextProcess ==
    \/ ParserInit
    \/ GetVersionsFiles
    \/ GetProjectsInfo
    \/ JoinReturns
    \/ JoinRaises
    \/ WriteSyncFile
    \/ MainAgain

SpecProcess == InitRemote /\ [][NextProcess]_vars

(***************************************************************************)
(* Parser.__get_project_type applied to any list of loader tags.           *)
(***************************************************************************)
\* The tags of the mapping, and one the mapping does not hold.
LoaderTags ==
    {"fabric", "quilt", "forge", "neoforge", "iris", "optifine", "datapack",
     "minecraft", "bukkit"}

InitType ==
    /\ loaders_in \in SeqsUpTo(LoaderTags, MaxLoaders)
    /\ project_type_out = "none"
    /\ RemoteIdle /\ ManifestIdle /\ UriIdle /\ StaticIdle

GetProjectType ==
    /\ project_type_out = "none"
    /\ project_type_out' = get_project_type(loaders_in)
    /\ UNCHANGED <<loaders_in, remote_vars, manifest_vars, uri_vars, static_vars>>

SpecType == InitType /\ [][GetProjectType]_vars

(***************************************************************************)
(* Parser.__get_manifest applied to any archive member list.               *)
(***************************************************************************)
\* The nine paths __get_manifest asks for, and a member it never asks for.
MemberPaths ==
    {FabricModJson, QuiltModJson, ModsToml, NeoforgeModsToml, ShadersDir,
     DataDir, PackMcmeta, ManifestMf, MetaInfManifestMf, <<"assets", "/">>}

InitManifest ==
    /\ members_in \in SUBSET MemberPaths
    /\ accept_mf_in \in BOOLEAN
    /\ manifest_out = [called |-> FALSE, raised |-> FALSE, path |-> <<>>]
    /\ RemoteIdle /\ TypeIdle /\ UriIdle /\ StaticIdle

GetManifest ==
    /\ ~manifest_out.called
    /\ LET m == get_manifest(members_in, accept_mf_in) IN
         manifest_out' = [called |-> TRUE, raised |-> m.raised, path |-> m.path]
    /\ UNCHANGED <<members_in, accept_mf_in, remote_vars, type_vars, uri_vars,
                   static_vars>>

SpecManifest == InitManifest /\ [][GetManifest]_vars

(***************************************************************************)
(* Parser.__get_uri applied to any filename and correction.                *)
(***************************************************************************)
NonEmptySeqsUpTo(S, n) == SeqsUpTo(S, n) \ {<<>>}

InitUri ==
    /\ filename_in \in NonEmptySeqsUpTo({"/", "x", ".", "jar"}, MaxPath)
                        \cup {<<"x", ".", "jar">>}
    /\ correction_in \in SeqsUpTo({"/", "sub"}, MaxCorrection)
    /\ uri_out = [called |-> FALSE, url |-> <<>>]
    /\ RemoteIdle /\ TypeIdle /\ ManifestIdle /\ StaticIdle

GetUri ==
    /\ ~uri_out.called
    /\ uri_out' = [called |-> TRUE, url |-> get_uri(filename_in, correction_in)]
    /\ UNCHANGED <<filename_in, correction_in, remote_vars, type_vars,
                   manifest_vars, static_vars>>

SpecUri == InitUri /\ [][GetUri]_vars

(***************************************************************************)
(* static.py: main().                                                      *)
(***************************************************************************)
\* The number of entries listed so far.
RECURSIVE TotalLen(_)
TotalLen(ls) == IF ls = <<>> THEN 0 ELSE Len(Head(ls)) + TotalLen(Tail(ls))

working_directory == working_directories[wd]

\* fixed_path + file
file_path(directory, file) ==
    (IF ~EndsWith(directory, <<"/">>)
     THEN directory \o <<"/">> ELSE directory) \o file

\* file.endswith(".jar") or file.endswith(".zip")
is_archive_name(file) == EndsWith(file, Jar) \/ EndsWith(file, Zip)

InitStatic ==
    /\ accept_mfs \in BOOLEAN
    /\ lpc = "directory"
    /\ wd = 1
    /\ dir_files = <<>>
    /\ fi = 1
    /\ listed = <<>>
    /\ static_sync_data = <<>>
    /\ static_output = NotWritten
    /\ printed = <<>>
    /\ handles = <<>>
    /\ RemoteIdle /\ TypeIdle /\ ManifestIdle /\ UriIdle

\* files = os.listdir(working_directory)
ListDir ==
    /\ lpc = "directory"
    /\ wd <= Len(working_directories)
    /\ \E listing \in Listings(MaxFiles - TotalLen(listed)) :
         /\ dir_files' = listing
         /\ listed' = Append(listed, listing)
    /\ fi' = 1
    /\ lpc' = "file"
    /\ UNCHANGED <<accept_mfs, wd, static_sync_data, static_output, printed,
                   handles>>
    /\ UNCHANGED <<remote_vars, type_vars, manifest_vars, uri_vars>>

\* os.listdir raises: the outer except prints and the next directory is walked.
ListDirRaises ==
    /\ lpc = "directory"
    /\ wd <= Len(working_directories)
    /\ listed' = Append(listed, <<>>)
    /\ printed' = Append(printed, "Error parsing files in: listdir")
    /\ wd' = wd + 1
    /\ UNCHANGED <<accept_mfs, lpc, dir_files, fi, static_sync_data, static_output,
                   handles>>
    /\ UNCHANGED <<remote_vars, type_vars, manifest_vars, uri_vars>>

\* A file that ends in neither .jar nor .zip is passed over.
SkipFile ==
    /\ lpc = "file"
    /\ fi <= Len(dir_files)
    /\ ~is_archive_name(dir_files[fi].file)
    /\ fi' = fi + 1
    /\ UNCHANGED <<accept_mfs, lpc, wd, dir_files, listed, static_sync_data,
                   static_output, printed, handles>>
    /\ UNCHANGED <<remote_vars, type_vars, manifest_vars, uri_vars>>

\* parser = Parser(file_path, correction, accept_mfs) raises: the call stands
\* outside the inner try, so the outer except prints and the rest of the
\* directory's files are left.
ParserInitRaises ==
    /\ lpc = "file"
    /\ fi <= Len(dir_files)
    /\ is_archive_name(dir_files[fi].file)
    /\ parser_init_raises(dir_files[fi], file_path(working_directory, dir_files[fi].file))
    /\ printed' = Append(printed, "Error parsing files in: does not exist")
    /\ wd' = wd + 1
    /\ lpc' = "directory"
    /\ UNCHANGED <<accept_mfs, dir_files, fi, listed, static_sync_data, static_output,
                   handles>>
    /\ UNCHANGED <<remote_vars, type_vars, manifest_vars, uri_vars>>

\* content = parser.parse(); sync_data.add_content(content)
ParseReturns ==
    /\ lpc = "file"
    /\ fi <= Len(dir_files)
    /\ is_archive_name(dir_files[fi].file)
    /\ ~parser_init_raises(dir_files[fi], file_path(working_directory, dir_files[fi].file))
    /\ \E rand_version \in RandVersions :
         LET r == parse(dir_files[fi], file_path(working_directory, dir_files[fi].file),
                        working_directory_to_url_override(working_directory),
                        accept_mfs, rand_version)
         IN  /\ ~r.raised
             /\ static_sync_data' = Append(static_sync_data, r.content)
             /\ handles' = Append(handles, parse_handles(dir_files[fi], r))
    /\ fi' = fi + 1
    /\ UNCHANGED <<accept_mfs, lpc, wd, dir_files, listed, static_output, printed>>
    /\ UNCHANGED <<remote_vars, type_vars, manifest_vars, uri_vars>>

\* parser.parse() raises: the inner except prints the exception.
ParseRaises ==
    /\ lpc = "file"
    /\ fi <= Len(dir_files)
    /\ is_archive_name(dir_files[fi].file)
    /\ ~parser_init_raises(dir_files[fi], file_path(working_directory, dir_files[fi].file))
    /\ LET r == parse(dir_files[fi], file_path(working_directory, dir_files[fi].file),
                      working_directory_to_url_override(working_directory),
                      accept_mfs, <<"0">>)
       IN  /\ r.raised
           /\ printed' = Append(printed, r.error)
           /\ handles' = Append(handles, parse_handles(dir_files[fi], r))
    /\ fi' = fi + 1
    /\ UNCHANGED <<accept_mfs, lpc, wd, dir_files, listed, static_sync_data,
                   static_output>>
    /\ UNCHANGED <<remote_vars, type_vars, manifest_vars, uri_vars>>

\* The for loop over files ends: on to the next working directory.
EndOfFiles ==
    /\ lpc = "file"
    /\ fi > Len(dir_files)
    /\ wd' = wd + 1
    /\ lpc' = "directory"
    /\ UNCHANGED <<accept_mfs, dir_files, fi, listed, static_sync_data,
                   static_output, printed, handles>>
    /\ UNCHANGED <<remote_vars, type_vars, manifest_vars, uri_vars>>

\* with open(output_file, "w") as f: f.write(sync_data.to_json())
WriteOutput ==
    /\ lpc = "directory"
    /\ wd > Len(working_directories)
    /\ static_output' = [written |-> TRUE, sync |-> static_sync_data]
    /\ lpc' = "done"
    /\ UNCHANGED <<accept_mfs, wd, dir_files, fi, listed, static_sync_data, printed,
                   handles>>
    /\ UNCHANGED <<remote_vars, type_vars, manifest_vars, uri_vars>>

NextStatic ==
    \/ ListDir
    \/ ListDirRaises
    \/ SkipFile
    \/ ParserInitRaises
    \/ ParseReturns
    \/ ParseRaises
    \/ EndOfFiles
    \/ WriteOutput

SpecStatic == InitStatic /\ [][NextStatic]_vars

(***************************************************************************)
(* Claims about the remote producer, checked under SpecRemote.             *)
(***************************************************************************)
\* The versions call returned data for version id v.
Phase1Has(v) == versions_status = 200 /\ v \in DOMAIN registry.versions

\* The input identifiers that have phase-1 data, in input order.
Phase1Inputs == SelectSeq(versions, Phase1Has)

\* The project that the registry declares as the owner of version v.
OwnerOf(v) == registry.versions[v].project_id

\* The projects call returned the project with id p.
Phase2Has(p) == \E j \in DOMAIN projects_body : projects_body[j].id = p

\* The registry knows version v and the project that owns it.
Resolvable(v) ==
    /\ v \in DOMAIN registry.versions
    /\ OwnerOf(v) \in DOMAIN registry.projects

RecordVersions(records) == [i \in DOMAIN records |-> records[i].version]

\* C1: when main() is done, the descriptor holds exactly one record for each
\* input identifier that has phase-1 data, in input order, each with the
\* phase-1 URL and type and the phase-2 name of its project; identifiers with
\* no phase-1 data have no record.
C1_RemoteJoin ==
    rpc = "done" =>
        /\ output.written
        /\ RecordVersions(output.sync) = Phase1Inputs
        /\ \A i \in DOMAIN output.sync :
             LET rec == output.sync[i] IN
               /\ rec.url = files_info[rec.version].url
               /\ rec.type = files_info[rec.version].type
               /\ rec.name = projects_info[DictGet(id_map, rec.version)]

\* C2: when both calls succeed, an input version that the registry does not
\* know, or whose project it does not know, is left out without an error: the
\* run does not fail, the descriptor is written, and it holds the records of
\* exactly the other input versions.
C2_MissingIdentifierExcluded ==
    (rpc = "done" /\ versions_status = 200 /\ projects_status = 200) =>
        /\ ~failed
        /\ output.written
        /\ RecordVersions(output.sync) = SelectSeq(versions, Resolvable)

\* C3: a run in which the versions call or the projects call got a non-success
\* status is not fatal: it ends with the descriptor written, holding no record.
C3_PhaseFailureNotFatal ==
    (rpc = "done" /\ (versions_status # 200 \/ projects_status # 200)) =>
        /\ ~failed
        /\ output.written
        /\ output.sync = <<>>

\* Every input version with phase-1 data has an owner that the projects call
\* returned.
AllOwnersReturned ==
    \A i \in DOMAIN versions :
        Phase1Has(versions[i]) => Phase2Has(OwnerOf(versions[i]))

\* C10: each project the projects call returned is named by its title, else
\* by its slug, else "UNKNOWN"; and a run in which the owner of every version
\* with phase-1 data was returned writes a record for each such version, under
\* that name, whether or not the project has a title or a slug.
C10_DisplayName ==
    /\ rpc \in {"join", "write", "done"} =>
         \A j \in DOMAIN projects_body :
            LET p == projects_body[j] IN
              /\ p.id \in DOMAIN projects_info
              /\ p.title # Absent => projects_info[p.id] = p.title
              /\ (p.title = Absent /\ p.slug # Absent) =>
                     projects_info[p.id] = p.slug
              /\ (p.title = Absent /\ p.slug = Absent) =>
                     projects_info[p.id] = "UNKNOWN"
    /\ (rpc = "done" /\ AllOwnersReturned) =>
         /\ output.written
         /\ RecordVersions(output.sync) = Phase1Inputs
         /\ \A i \in DOMAIN output.sync :
              LET p == registry.projects[OwnerOf(output.sync[i].version)] IN
                output.sync[i].name =
                    IF p.title # Absent THEN p.title
                    ELSE IF p.slug # Absent THEN p.slug ELSE "UNKNOWN"

\* C10's case: a record was written for a version whose project has neither a
\* title nor a slug, next to a record named by a slug.
C10_Witness ==
    /\ rpc = "done"
    /\ output.written
    /\ \E i, k \in DOMAIN output.sync :
         LET p == registry.projects[OwnerOf(output.sync[i].version)]
             q == registry.projects[OwnerOf(output.sync[k].version)]
         IN  /\ p.title = Absent /\ p.slug = Absent
             /\ output.sync[i].name = "UNKNOWN"
             /\ q.title = Absent /\ q.slug # Absent
             /\ output.sync[k].name = q.slug

(***************************************************************************)
(* Claims about Parser.__get_project_type, checked under SpecType.         *)
(***************************************************************************)
MappedTags ==
    {"fabric", "quilt", "forge", "neoforge", "iris", "optifine", "datapack",
     "minecraft"}

TypeOfTag(tag) ==
    CASE tag \in {"fabric", "quilt", "forge", "neoforge"} -> "mod"
      [] tag \in {"iris", "optifine"} -> "shader"
      [] tag = "datapack" -> "datapack"
      [] tag = "minecraft" -> "resourcepack"

\* C7: the type returned for a loader list is the type of the first tag, in
\* list order, that the mapping holds; tags it does not hold are skipped, and
\* a list with no mapped tag, the empty list included, gives mod.
C7_LoaderMapping ==
    project_type_out # "none" =>
        /\ (\A i \in DOMAIN loaders_in : loaders_in[i] \notin MappedTags)
               => project_type_out = "mod"
        /\ \A i \in DOMAIN loaders_in :
              (/\ loaders_in[i] \in MappedTags
               /\ \A j \in 1..(i - 1) : loaders_in[j] \notin MappedTags)
                  => project_type_out = TypeOfTag(loaders_in[i])
        /\ loaders_in = <<"fabric">> => project_type_out = "mod"
        /\ loaders_in = <<"iris">> => project_type_out = "shader"
        /\ loaders_in = <<"datapack">> => project_type_out = "datapack"
        /\ loaders_in = <<"minecraft">> => project_type_out = "resourcepack"
        /\ loaders_in = <<>> => project_type_out = "mod"

\* C7's case: an unmapped tag was skipped and the tag after it decided.
C7_Witness ==
    /\ loaders_in = <<"bukkit", "iris">>
    /\ project_type_out = "shader"

(***************************************************************************)
(* Claims about Parser.__get_manifest, checked under SpecManifest.         *)
(***************************************************************************)
NoneOfSeven(member_set) ==
    \A i \in DOMAIN paths_to_try : paths_to_try[i] \notin member_set

\* C4: __get_manifest returns the first present member in the order
\* fabric.mod.json, quilt.mod.json, META-INF/mods.toml,
\* META-INF/neoforge.mods.toml, shaders/, data/, pack.mcmeta; a MANIFEST.MF
\* (MANIFEST.MF before META-INF/MANIFEST.MF) is returned only when none of the
\* seven is present and accept_mf is true.
C4_ManifestPrecedence ==
    manifest_out.called =>
        /\ \A i \in DOMAIN paths_to_try :
              (/\ paths_to_try[i] \in members_in
               /\ \A j \in 1..(i - 1) : paths_to_try[j] \notin members_in)
                  => (~manifest_out.raised /\ manifest_out.path = paths_to_try[i])
        /\ (~manifest_out.raised
            /\ manifest_out.path \in {ManifestMf, MetaInfManifestMf})
               => (NoneOfSeven(members_in) /\ accept_mf_in)
        /\ (~manifest_out.raised /\ manifest_out.path = MetaInfManifestMf)
               => ManifestMf \notin members_in
        /\ ~manifest_out.raised => manifest_out.path \in members_in
        /\ paths_to_try =
              << <<"fabric", ".", "mod", ".", "json">>,
                 <<"quilt", ".", "mod", ".", "json">>,
                 <<"META-INF", "/", "mods", ".", "toml">>,
                 <<"META-INF", "/", "neoforge", ".", "mods", ".", "toml">>,
                 <<"shaders", "/">>, <<"data", "/">>,
                 <<"pack", ".", "mcmeta">> >>

\* C4's case: a JSON descriptor and pack.mcmeta are both present, with a
\* MANIFEST.MF, and the JSON descriptor is returned.
C4_Witness ==
    /\ manifest_out.called
    /\ {QuiltModJson, PackMcmeta, ManifestMf} \subseteq members_in
    /\ FabricModJson \notin members_in
    /\ accept_mf_in
    /\ manifest_out.path = QuiltModJson

(***************************************************************************)
(* Claims about Parser.__get_uri, checked under SpecUri.                   *)
(***************************************************************************)
\* The last path segment of the filename passed in.
LastSegment(name) == SubSeq(name, RFind(name, "/") + 1, Len(name))

\* The correction as it stands in the URL returned, between the base URL and
\* the file's last path segment.
UsedCorrection ==
    SubSeq(uri_out.url, Len(url_base_path) + 1,
           Len(uri_out.url) - Len(LastSegment(filename_in)))

\* C8: the URL returned is baseUrl + correction + filename, where a non-empty
\* correction is used with no leading slash and exactly one trailing slash
\* ("/sub", "sub/" and "sub" all give .../sub/x.jar), and an empty correction
\* adds nothing.
C8_CorrectionNormalized ==
    uri_out.called =>
        /\ StartsWith(uri_out.url, url_base_path)
        /\ EndsWith(uri_out.url, LastSegment(filename_in))
        /\ correction_in = <<>> => UsedCorrection = <<>>
        /\ correction_in # <<>> =>
              /\ UsedCorrection # <<>>
              /\ Head(UsedCorrection) # "/"
              /\ UsedCorrection[Len(UsedCorrection)] = "/"
              /\ Len(UsedCorrection) >= 2 =>
                     UsedCorrection[Len(UsedCorrection) - 1] # "/"
        /\ (/\ filename_in = <<"x", ".", "jar">>
            /\ correction_in \in {<<"/", "sub">>, <<"sub", "/">>, <<"sub">>})
               => uri_out.url = url_base_path \o <<"sub", "/", "x", ".", "jar">>

(***************************************************************************)
(* Claims about the local producer, checked under SpecStatic.              *)
(***************************************************************************)
\* main() is at an archive, the file dir_files[fi], and handles it.
HandlesArchive ==
    /\ lpc = "file"
    /\ fi <= Len(dir_files)
    /\ is_archive_name(dir_files[fi].file)
    /\ <<lpc, wd, fi>> # <<lpc', wd', fi'>>

\* C5: with accept_mfs false, handling an archive that holds none of the
\* seven manifest members prints an error and adds no record, whether or not
\* the archive holds a MANIFEST.MF.
C5_Unclassifiable ==
    [][(HandlesArchive /\ ~accept_mfs /\ NoneOfSeven(dir_files[fi].members)) =>
          /\ static_sync_data' = static_sync_data
          /\ Len(printed') = Len(printed) + 1]_vars

\* C5's case: with accept_mfs false, an archive that holds only
\* META-INF/MANIFEST.MF has just been handled: "No manifest found" was
\* printed and no record was added.
C5_Witness ==
    /\ ~accept_mfs
    /\ lpc = "file"
    /\ fi = 2
    /\ dir_files[1].members = {MetaInfManifestMf}
    /\ dir_files[1].zip
    /\ printed = <<"No manifest found">>
    /\ static_sync_data = <<>>

\* The archive e of directory number d can be constructed and parsed.
Succeeds(d, e) ==
    LET path == file_path(working_directories[d], e.file) IN
      /\ is_archive_name(e.file)
      /\ ~parser_init_raises(e, path)
      /\ ~parse(e, path, working_directory_to_url_override(working_directories[d]),
                accept_mfs, <<"0">>).raised

\* The URLs of the archives of listing l of directory number d that succeed.
RECURSIVE UrlsOfListing(_, _)
UrlsOfListing(d, l) ==
    IF l = <<>> THEN <<>>
    ELSE (IF Succeeds(d, Head(l))
          THEN <<get_uri(file_path(working_directories[d], Head(l).file),
                         working_directory_to_url_override(working_directories[d]))>>
          ELSE <<>>) \o UrlsOfListing(d, Tail(l))

\* The same over the first k directories.
RECURSIVE UrlsOfListings(_)
UrlsOfListings(k) ==
    IF k = 0 THEN <<>>
    ELSE UrlsOfListings(k - 1) \o UrlsOfListing(k, listed[k])

\* C6: an archive whose handling fails (unclassifiable, malformed manifest,
\* or a Parser that cannot be constructed) is skipped alone: when main() is
\* done, the descriptor holds exactly the records of the archives, of every
\* directory listed, that can be constructed and parsed.
C6_DegradeAndContinue ==
    lpc = "done" =>
        /\ static_output.written
        /\ [i \in DOMAIN static_output.sync |-> static_output.sync[i].url]
              = UrlsOfListings(Len(listed))

\* The archive being handled is read through a TOML mod descriptor that
\* parses: it can be opened, holds no JSON descriptor, and holds mods.toml or
\* neoforge.mods.toml.
HandlesToml ==
    /\ HandlesArchive
    /\ dir_files[fi].exists
    /\ dir_files[fi].zip
    /\ FabricModJson \notin dir_files[fi].members
    /\ QuiltModJson \notin dir_files[fi].members
    /\ (ModsToml \in dir_files[fi].members
        \/ NeoforgeModsToml \in dir_files[fi].members)
    /\ dir_files[fi].doc.parses

\* C9: for an archive read through a TOML mod descriptor, the record added is
\* named by displayName when the first mods entry has one, by modId when it has
\* no displayName, its version is the entry's version and its type is mod;
\* when the entry has no version, an error is printed and no record is added.
C9_TomlExtraction ==
    [][HandlesToml =>
          LET entry == dir_files[fi].doc.fields
              added == static_sync_data'[Len(static_sync_data')]
          IN  /\ ("version" \in DOMAIN entry
                  /\ ("displayName" \in DOMAIN entry \/ "modId" \in DOMAIN entry)) =>
                     /\ Len(static_sync_data') = Len(static_sync_data) + 1
                     /\ SubSeq(static_sync_data', 1, Len(static_sync_data))
                            = static_sync_data
                     /\ "displayName" \in DOMAIN entry =>
                            added.name = entry["displayName"]
                     /\ "displayName" \notin DOMAIN entry =>
                            added.name = entry["modId"]
                     /\ added.version = entry["version"]
                     /\ added.type = "mod"
              /\ "version" \notin DOMAIN entry =>
                     /\ static_sync_data' = static_sync_data
                     /\ Len(printed') = Len(printed) + 1]_vars

\* C9's case: a descriptor with displayName and modId gave a record named by
\* displayName, and a descriptor with no version gave an error and no record.
C9_Witness ==
    /\ lpc = "done"
    /\ \E d \in DOMAIN listed : \E k \in DOMAIN listed[d] :
          /\ ModsToml \in listed[d][k].members
          /\ DOMAIN listed[d][k].doc.fields = {"displayName", "modId", "version"}
    /\ \E d \in DOMAIN listed : \E k \in DOMAIN listed[d] :
          /\ ModsToml \in listed[d][k].members
          /\ "version" \notin DOMAIN listed[d][k].doc.fields
    /\ Len(static_output.sync) = 1
    /\ static_output.sync[1].name = <<"Forge Mod">>
    /\ static_output.sync[1].version = <<"2", ".", "0">>
    /\ printed = <<"KeyError: version">>

(***************************************************************************)
(* Handles of the local producer.                                          *)
(***************************************************************************)
\* C11: whenever Parser.parse has returned or raised, every handle opened
\* during that call, the archive handle and the manifest member stream
\* opened with archive.open alike, has been closed.
C11_HandlesReleased ==
    \A i \in DOMAIN handles :
        /\ handles[i].archive \in {"none", "closed"}
        /\ handles[i].stream \in {"none", "closed"}

\* The part of C11 the with statement gives: the archive handle is closed
\* at every exit of parse().
ArchiveHandleReleased ==
    \A i \in DOMAIN handles : handles[i].archive \in {"none", "closed"}

\* A parse() call opened both handles and closed both.
BothHandlesClosed ==
    \E i \in DOMAIN handles :
        handles[i].archive = "closed" /\ handles[i].stream = "closed"

(***************************************************************************)
(* Run independence of the remote producer.                                *)
(***************************************************************************)
\* The run of a Parser created in a process that never had another one, on
\* the current input list and with the registry responses of the current
\* run: the phase-2 request it sends and what its join gives.
FreshRun ==
    LET got  == get_versions_files(versions_status,
                                   BatchBody(registry.versions, versions, {}),
                                   init_id_map(versions, EmptyDict))
        ids  == project_ids(got.id_map)
        body == IF projects_status = 200
                THEN BatchBody(registry.projects, ids, {}) ELSE <<>>
        info == get_projects_info(projects_status, body)
    IN  [request |-> ids,
         result  |-> join(versions, got.files, info, got.id_map, <<>>)]

\* The project identifiers phase 1 of the current run collected.
CollectedInPhase1 == { OwnerOf(versions[j]) : j \in {k \in DOMAIN versions : Phase1Has(versions[k])} }

\* The records of the current run are those of a fresh run.
SameRecordsAsFreshRun ==
    /\ rpc = "write" => ~FreshRun.result.raised /\ sync_data = FreshRun.result.contents
    /\ rpc = "done" => /\ failed = FreshRun.result.raised
                       /\ ~failed => sync_data = FreshRun.result.contents

\* C12: once a Parser has sent its phase-2 request, the project identifiers
\* it asked for are those a Parser of a fresh process would have asked for on
\* the same input and responses, all of them collected in phase 1 of the
\* current run, and the records it emits are those of that fresh run, however
\* many Parsers the process created before.
C12_RunIndependence ==
    rpc \in {"join", "write", "done"} =>
        /\ projects_req = FreshRun.request
        /\ \A i \in DOMAIN projects_req : projects_req[i] \in CollectedInPhase1
        /\ SameRecordsAsFreshRun

\* A second Parser has sent its phase-2 request.
SecondParserAsked == parsers = 2 /\ rpc \in {"join", "write", "done"}

=============================================================================
